---- MODULE Spec2Model ----
(***************************************************************************)
(* Entity lifecycle of bitECS (src/src/Entity.ts): the global id           *)
(* allocator (cursor, capacity, recycle pool, reuse threshold), the        *)
(* per-world entity registry and the hooks into queries, bitmask rows and  *)
(* the deserialisation maps.                                               *)
(*                                                                         *)
(* removedReuseThreshold is a fraction in the source; it is kept here in   *)
(* hundredths (0.01 is 1, 0.5 is 50), so Math.round(defaultSize * t) is    *)
(* computed on integers by Round.                                          *)
(***************************************************************************)
EXTENDS Integers, Sequences, FiniteSets, TLC

\* ---------------------------------------------------------------- bounds
\* configured default size at start-up (100000 in the source, scaled down)
InitSize == 2
\* number of addEntity calls explored per behaviour
MaxAdds == 3
\* number of other state-changing calls explored per behaviour (component
\* additions, deserialisation-map insertions, configuration calls)
MaxOtherOps == 2

\* ------------------------------------------------------------- constants
\* defaultRemovedReuseThreshold, in hundredths
defaultRemovedReuseThreshold == 1

Worlds == {"w1", "w2"}
Components == {"c1", "c2"}
Rows == {0, 1}
Queries == {"qHas", "qNot"}
Locals == {0}
\* sizes a user passes to setDefaultSize
UserSizes == {0, 1}
\* the configurations the churn runs start from: the capacities and the
\* thresholds (hundredths) set before the first entity is created
ChurnSizes == {InitSize, InitSize + 1}
ChurnThresholds == {defaultRemovedReuseThreshold, 20, 50}
\* thresholds a user passes to setRemovedRecycleThreshold, in hundredths
Thresholds == {50}
\* the cursor advances by at most one per addEntity call
Ids == 0..(MaxAdds - 1)

VARIABLES
  defaultSize,            \* let defaultSize
  globalEntityCursor,     \* let globalEntityCursor
  globalSize,             \* let globalSize
  removed,                \* const removed: number[]
  removedReuseThreshold,  \* let removedReuseThreshold (hundredths)
  eidToWorld,             \* Map eid -> world
  entitySparseSet,        \* world[$entitySparseSet]
  entityComponents,       \* world[$entityComponents] : Map eid -> Set
  entityMasks,            \* world[$entityMasks][row][eid]
  queryResult,            \* result set of each registered query
  localEntities,          \* world[$localEntities] : Map local -> eid
  localEntityLookup,      \* world[$localEntityLookup] : Map eid -> local
  worldsSize,             \* size last passed to resizeWorlds
  componentsSize,         \* size last passed to resizeComponents
  serializationResized,   \* flag set by setSerializationResized
  lastOp,                 \* the call that produced this state, with its result
  issued,                 \* ids returned so far while only addEntity was called
  pureAdds,               \* TRUE while every call so far was addEntity
  adds,                   \* addEntity calls so far
  otherOps,               \* calls other than addEntity / removeEntity so far
  maxLive                 \* largest number of live entities so far

globals == <<defaultSize, globalEntityCursor, globalSize, removed,
             removedReuseThreshold>>
worldState == <<entitySparseSet, entityComponents, entityMasks, queryResult,
                localEntities, localEntityLookup>>
collaborators == <<worldsSize, componentsSize, serializationResized>>
history == <<lastOp, issued, pureAdds, adds, otherOps, maxLive>>
vars == <<globals, eidToWorld, worldState, collaborators, history>>

\* ------------------------------------------------------------ Map helpers
EmptyMap == [x \in {} |-> 0]

MapSet(m, k, v) == [x \in (DOMAIN m) \cup {k} |-> IF x = k THEN v ELSE m[x]]

MapDelete(m, k) == [x \in (DOMAIN m) \ {k} |-> m[x]]

\* number of live entities over all worlds
RECURSIVE sumCard(_, _)
sumCard(sparse, ws) ==
  IF ws = {} THEN 0
  ELSE LET w == CHOOSE x \in ws : TRUE
       IN Cardinality(sparse[w]) + sumCard(sparse, ws \ {w})

liveCount(sparse) == sumCard(sparse, Worlds)

\* ------------------------------------------------------------- arithmetic
\* Math.ceil(n / d) for n >= 0, d > 0
Ceil(n, d) == (n + d - 1) \div d

\* Math.round(size * t) with t in hundredths: round half up
Round(size, t) == (2 * size * t + 100) \div 200

\* growth only once the cursor has passed the capacity
resizeThresholdLate(cursor, size) == cursor > size

\* the threshold taken at half the capacity instead of four fifths
resizeThresholdHalf(cursor, size) == 2 * cursor >= size

\* globalEntityCursor >= resizeThreshold(), resizeThreshold being the real
\* number globalSize - globalSize / 5
resizeThresholdReached(cursor, size) == 5 * cursor >= 5 * size - size

\* Math.floor in place of Math.ceil
growAmountFloor(size) == (size \div 8) * 4

\* Math.ceil(size / 2 / 4) * 4
growAmount(size) == Ceil(size, 8) * 4


\* ------------------------------------------- collaborators (Query, World)
\* row and bit of a component in the world's bitmask rows
componentRow(c) == IF c = "c1" THEN 0 ELSE 1

componentBitflag(c) == 1

\* queries registered in every world: qHas requires c1, qNot requires the
\* absence of c2
queryMask(q) == IF q = "qHas" THEN [r \in Rows |-> IF r = 0 THEN 1 ELSE 0]
                ELSE [r \in Rows |-> 0]

queryNotMask(q) == IF q = "qNot" THEN [r \in Rows |-> IF r = 1 THEN 1 ELSE 0]
                   ELSE [r \in Rows |-> 0]

notQueries == {q \in Queries : \E r \in Rows : queryNotMask(q)[r] # 0}

\* masks range over 0..1 here, so x & m is m when x = 1 and 0 when x = 0
BitAnd(x, m) == IF x = 1 THEN m ELSE 0

queryCheckEntity(masks, q, eid) ==
  \A r \in Rows :
    /\ ~(queryNotMask(q)[r] # 0 /\ BitAnd(masks[r][eid], queryNotMask(q)[r]) # 0)
    /\ ~(queryMask(q)[r] # 0
         /\ BitAnd(masks[r][eid], queryMask(q)[r]) # queryMask(q)[r])

queryAddEntity(result, eid) == result \cup {eid}

queryRemoveEntity(result, eid) == result \ {eid}

\* ---------------------------------------------------------------- globals
\* the module-level variables after resetGlobals(), defaultSize being dflt
resetGlobalsRec(dflt) ==
  [ defaultSize |-> dflt,
    globalSize |-> dflt,
    globalEntityCursor |-> 0,
    removedReuseThreshold |-> defaultRemovedReuseThreshold,
    removed |-> <<>> ]

\* resizeWorlds(newSize) left out
setDefaultSizeWorldsNotResized(newSize) ==
  [ defaultSize |-> newSize,
    globalSize |-> newSize,
    globalEntityCursor |-> 0,
    removedReuseThreshold |-> defaultRemovedReuseThreshold,
    removed |-> <<>>,
    worldsSize |-> worldsSize,
    componentsSize |-> newSize,
    serializationResized |-> TRUE ]

\* the module-level variables and the collaborators after setDefaultSize
setDefaultSizeRec(newSize) ==
  [ defaultSize |-> newSize,
    globalSize |-> newSize,
    globalEntityCursor |-> resetGlobalsRec(newSize).globalEntityCursor,
    removedReuseThreshold |-> resetGlobalsRec(newSize).removedReuseThreshold,
    removed |-> resetGlobalsRec(newSize).removed,
    worldsSize |-> newSize,
    componentsSize |-> newSize,
    serializationResized |-> TRUE ]

currentRec ==
  [ defaultSize |-> defaultSize,
    globalSize |-> globalSize,
    globalEntityCursor |-> globalEntityCursor,
    removedReuseThreshold |-> removedReuseThreshold,
    removed |-> removed,
    worldsSize |-> worldsSize,
    componentsSize |-> componentsSize,
    serializationResized |-> serializationResized ]

\* the state addEntity chooses the id in: after the growth check
afterGrowthCheck ==
  IF resizeThresholdReached(globalEntityCursor, globalSize)
  THEN setDefaultSizeRec(globalSize + growAmount(globalSize))
  ELSE currentRec

\* the pool compared with defaultSize itself, the threshold factor left out
shouldRecycleNoFactor(pool, dflt, threshold) == Len(pool) > dflt

\* removed.length > Math.round(defaultSize * removedReuseThreshold)
shouldRecycle(pool, dflt, threshold) == Len(pool) > Round(dflt, threshold)

\* removed.pop() in place of removed.shift()
pop(pool) == [eid |-> pool[Len(pool)], rest |-> SubSeq(pool, 1, Len(pool) - 1)]

\* removed.shift()
shift(pool) == [eid |-> Head(pool), rest |-> Tail(pool)]

\* the removed id not recorded in the pool
pushNothing(pool, eid) == pool

\* removed.push(eid)
push(pool, eid) == Append(pool, eid)

\* the sweep stopping one row short
clearMasksButLast(masks, eid) ==
  [r \in Rows |-> [x \in Ids |-> IF x = eid /\ r # 1 THEN 0 ELSE masks[r][x]]]

\* for (i ...) world[$entityMasks][i][eid] = 0
clearMasks(masks, eid) ==
  [r \in Rows |-> [x \in Ids |-> IF x = eid THEN 0 ELSE masks[r][x]]]

\* the not-query hook left out
notQueriesOnAddSkipped(results, masks, eid) == results

\* world[$notQueries].forEach: add eid to each not-query it matches
notQueriesOnAdd(results, masks, eid) ==
  [q \in Queries |->
     IF q \in notQueries /\ queryCheckEntity(masks, q, eid)
     THEN queryAddEntity(results[q], eid) ELSE results[q]]

\* the sweep running over world[$notQueries] in place of world[$queries]
notQueriesOnRemove(results, eid) ==
  [q \in Queries |->
     IF q \in notQueries THEN queryRemoveEntity(results[q], eid) ELSE results[q]]

\* world[$queries].forEach: remove eid from every query
queriesOnRemove(results, eid) ==
  [q \in Queries |-> queryRemoveEntity(results[q], eid)]

\* history record of a call: its name, arguments and result; grew tells
\* whether addEntity resized, wasLive, held and hadLocal what removeEntity found,
\* result and tags what getEntityComponents / entityExists gave back
NoCall == [op |-> "init", world |-> "none", eid |-> -1, grew |-> FALSE,
           wasLive |-> FALSE, held |-> {}, hadLocal |-> FALSE,
           result |-> "none", tags |-> {}]

Call(op, w, eid, grew) == [NoCall EXCEPT !.op = op, !.world = w, !.eid = eid,
                                         !.grew = grew]

\* the early return left out
neverAlreadyRemoved(world, eid) == FALSE

\* if (!world[$entitySparseSet].has(eid)) return
alreadyRemoved(world, eid) == eid \notin entitySparseSet[world]

\* ------------------------------------------------------------------- Init
\* the worlds and the call history before the first call
InitWorlds ==
  /\ eidToWorld = EmptyMap
  /\ entitySparseSet = [w \in Worlds |-> {}]
  /\ entityComponents = [w \in Worlds |-> EmptyMap]
  /\ entityMasks = [w \in Worlds |-> [r \in Rows |-> [x \in Ids |-> 0]]]
  /\ queryResult = [w \in Worlds |-> [q \in Queries |-> {}]]
  /\ localEntities = [w \in Worlds |-> EmptyMap]
  /\ localEntityLookup = [w \in Worlds |-> EmptyMap]
  /\ lastOp = NoCall
  /\ issued = <<>>
  /\ pureAdds = TRUE
  /\ adds = 0
  /\ otherOps = 0
  /\ maxLive = 0

Init ==
  /\ defaultSize = InitSize
  /\ globalEntityCursor = 0
  /\ globalSize = InitSize
  /\ removed = <<>>
  /\ removedReuseThreshold = defaultRemovedReuseThreshold
  /\ worldsSize = InitSize
  /\ componentsSize = InitSize
  /\ serializationResized = FALSE
  /\ InitWorlds

\* start-up followed by setDefaultSize(size) and
\* setRemovedRecycleThreshold(t), before any entity exists
InitChurn ==
  \E size \in ChurnSizes :
    /\ defaultSize = setDefaultSizeRec(size).defaultSize
    /\ globalEntityCursor = setDefaultSizeRec(size).globalEntityCursor
    /\ globalSize = setDefaultSizeRec(size).globalSize
    /\ removed = setDefaultSizeRec(size).removed
    /\ removedReuseThreshold \in ChurnThresholds
    /\ worldsSize = setDefaultSizeRec(size).worldsSize
    /\ componentsSize = setDefaultSizeRec(size).componentsSize
    /\ serializationResized = setDefaultSizeRec(size).serializationResized
    /\ InitWorlds

\* ---------------------------------------------------------------- actions
ApplyGlobals(g) ==
  /\ defaultSize' = g.defaultSize
  /\ globalSize' = g.globalSize
  /\ globalEntityCursor' = g.globalEntityCursor
  /\ removedReuseThreshold' = g.removedReuseThreshold
  /\ removed' = g.removed

ApplyCollaborators(g) ==
  /\ worldsSize' = g.worldsSize
  /\ componentsSize' = g.componentsSize
  /\ serializationResized' = g.serializationResized

NotAnAdd ==
  /\ issued' = <<>>
  /\ pureAdds' = FALSE

addEntity(world) ==
  LET grew == resizeThresholdReached(globalEntityCursor, globalSize)
      g == afterGrowthCheck
      recycle == shouldRecycle(g.removed, g.defaultSize, g.removedReuseThreshold)
      eid == IF recycle THEN shift(g.removed).eid ELSE g.globalEntityCursor
  IN /\ adds < MaxAdds
     /\ eid \in Ids
     /\ ApplyGlobals([g EXCEPT
          !.removed = IF recycle THEN shift(g.removed).rest ELSE @,
          !.globalEntityCursor = IF recycle THEN @ ELSE @ + 1])
     /\ ApplyCollaborators(g)
     /\ entitySparseSet' = [entitySparseSet EXCEPT ![world] = @ \cup {eid}]
     /\ eidToWorld' = MapSet(eidToWorld, eid, world)
     /\ queryResult' = [queryResult EXCEPT ![world] =
          notQueriesOnAdd(@, entityMasks[world], eid)]
     /\ entityComponents' = [entityComponents EXCEPT ![world] = MapSet(@, eid, {})]
     /\ UNCHANGED <<entityMasks, localEntities, localEntityLookup>>
     /\ lastOp' = Call("addEntity", world, eid, grew)
     /\ pureAdds' = pureAdds
     /\ issued' = IF pureAdds THEN Append(issued, eid) ELSE <<>>
     /\ adds' = adds + 1
     /\ maxLive' = IF liveCount(entitySparseSet') > maxLive
                   THEN liveCount(entitySparseSet') ELSE maxLive
     /\ UNCHANGED otherOps

removeEntity(world, eid) ==
  /\ lastOp' = [Call("removeEntity", world, eid, FALSE) EXCEPT
                  !.wasLive = eid \in entitySparseSet[world],
                  !.held = {r \in Rows : entityMasks[world][r][eid] # 0},
                  !.hadLocal = eid \in DOMAIN localEntityLookup[world]]
  /\ NotAnAdd
  /\ UNCHANGED <<adds, otherOps, maxLive>>
  /\ IF alreadyRemoved(world, eid)
     THEN UNCHANGED <<globals, eidToWorld, worldState, collaborators>>
     ELSE /\ queryResult' = [queryResult EXCEPT ![world] = queriesOnRemove(@, eid)]
          /\ removed' = push(removed, eid)
          /\ entitySparseSet' = [entitySparseSet EXCEPT ![world] = @ \ {eid}]
          /\ entityComponents' = [entityComponents EXCEPT ![world] = MapDelete(@, eid)]
          /\ localEntities' = [localEntities EXCEPT ![world] =
               IF eid \in DOMAIN localEntityLookup[world]
               THEN MapDelete(@, localEntityLookup[world][eid]) ELSE @]
          /\ localEntityLookup' = [localEntityLookup EXCEPT ![world] = MapDelete(@, eid)]
          /\ entityMasks' = [entityMasks EXCEPT ![world] = clearMasks(@, eid)]
          /\ UNCHANGED <<defaultSize, globalEntityCursor, globalSize,
                         removedReuseThreshold, eidToWorld, collaborators>>

setDefaultSize(newSize) ==
  /\ otherOps < MaxOtherOps
  /\ otherOps' = otherOps + 1
  /\ ApplyGlobals(setDefaultSizeRec(newSize))
  /\ ApplyCollaborators(setDefaultSizeRec(newSize))
  /\ lastOp' = Call("setDefaultSize", "none", newSize, FALSE)
  /\ NotAnAdd
  /\ UNCHANGED <<eidToWorld, worldState, adds, maxLive>>

resetGlobals ==
  /\ otherOps < MaxOtherOps
  /\ otherOps' = otherOps + 1
  /\ ApplyGlobals(resetGlobalsRec(defaultSize))
  /\ lastOp' = Call("resetGlobals", "none", -1, FALSE)
  /\ NotAnAdd
  /\ UNCHANGED <<eidToWorld, worldState, collaborators, adds, maxLive>>

setRemovedRecycleThreshold(newThreshold) ==
  /\ otherOps < MaxOtherOps
  /\ otherOps' = otherOps + 1
  /\ removedReuseThreshold' = newThreshold
  /\ lastOp' = Call("setRemovedRecycleThreshold", "none", newThreshold, FALSE)
  /\ NotAnAdd
  /\ UNCHANGED <<defaultSize, globalEntityCursor, globalSize, removed,
                 eidToWorld, worldState, collaborators, adds, maxLive>>

\* addComponent of the Component collaborator on a live entity that does not
\* hold the component yet
addComponent(world, c, eid) ==
  /\ otherOps < MaxOtherOps
  /\ eid \in entitySparseSet[world]
  /\ eid \in DOMAIN entityComponents[world]
  /\ BitAnd(entityMasks[world][componentRow(c)][eid], componentBitflag(c)) = 0
  /\ entityMasks' = [entityMasks EXCEPT ![world][componentRow(c)][eid] = componentBitflag(c)]
  /\ queryResult' = [queryResult EXCEPT ![world] =
       [q \in Queries |->
          IF queryCheckEntity(entityMasks'[world], q, eid)
          THEN queryAddEntity(@[q], eid) ELSE queryRemoveEntity(@[q], eid)]]
  /\ entityComponents' = [entityComponents EXCEPT ![world][eid] = @ \cup {c}]
  /\ otherOps' = otherOps + 1
  /\ lastOp' = Call("addComponent", world, eid, FALSE)
  /\ NotAnAdd
  /\ UNCHANGED <<globals, eidToWorld, entitySparseSet, localEntities,
                 localEntityLookup, collaborators, adds, maxLive>>

\* the deserializer recording that local id `local` stands for a live eid
mapLocalEntity(world, local, eid) ==
  /\ otherOps < MaxOtherOps
  /\ eid \in entitySparseSet[world]
  /\ localEntities' = [localEntities EXCEPT ![world] = MapSet(@, local, eid)]
  /\ localEntityLookup' = [localEntityLookup EXCEPT ![world] = MapSet(@, eid, local)]
  /\ otherOps' = otherOps + 1
  /\ lastOp' = Call("mapLocalEntity", world, eid, FALSE)
  /\ NotAnAdd
  /\ UNCHANGED <<globals, eidToWorld, entitySparseSet, entityComponents,
                 entityMasks, queryResult, collaborators, adds, maxLive>>

\* the value of a missing eid argument
undefined == 0 - 1

\* the sparse-set check of line 140 left out
getEntityComponentsLax(world, eid) ==
  /\ lastOp' = [Call("getEntityComponents", world, eid, FALSE) EXCEPT
       !.result = IF eid = undefined THEN "InvalidEntity"
                  ELSE IF eid \notin DOMAIN entityComponents[world] THEN "TypeError"
                  ELSE "ok",
       !.tags = IF eid # undefined /\ eid \in DOMAIN entityComponents[world]
                THEN entityComponents[world][eid] ELSE {}]
  /\ NotAnAdd
  /\ UNCHANGED <<globals, eidToWorld, worldState, collaborators, adds, otherOps, maxLive>>

\* getEntityComponents: throws "entity is undefined" (InvalidEntity) or
\* "entity does not exist in the world" (EntityNotFound), else returns the
\* tag set; Array.from(undefined) would throw a TypeError
getEntityComponents(world, eid) ==
  /\ lastOp' = [Call("getEntityComponents", world, eid, FALSE) EXCEPT
       !.result = IF eid = undefined THEN "InvalidEntity"
                  ELSE IF eid \notin entitySparseSet[world] THEN "EntityNotFound"
                  ELSE IF eid \notin DOMAIN entityComponents[world] THEN "TypeError"
                  ELSE "ok",
       !.tags = IF /\ eid # undefined
                   /\ eid \in entitySparseSet[world]
                   /\ eid \in DOMAIN entityComponents[world]
                THEN entityComponents[world][eid] ELSE {}]
  /\ NotAnAdd
  /\ UNCHANGED <<globals, eidToWorld, worldState, collaborators, adds, otherOps, maxLive>>

\* entityExists: the body evaluates has(eid) and returns nothing
entityExists(world, eid) ==
  /\ lastOp' = [Call("entityExists", world, eid, FALSE) EXCEPT
       !.result = "undefined"]
  /\ NotAnAdd
  /\ UNCHANGED <<globals, eidToWorld, worldState, collaborators, adds, otherOps, maxLive>>

GetEntityComponentsStep ==
  \E w \in Worlds, e \in Ids \cup {undefined} : getEntityComponents(w, e)
EntityExistsStep == \E w \in Worlds, e \in Ids : entityExists(w, e)
AddEntityStep == \E w \in Worlds : addEntity(w)
RemoveEntityStep == \E w \in Worlds, e \in Ids : removeEntity(w, e)
SetDefaultSizeStep == \E n \in UserSizes : setDefaultSize(n)
SetThresholdStep == \E t \in Thresholds : setRemovedRecycleThreshold(t)
AddComponentStep == \E w \in Worlds, c \in Components, e \in Ids : addComponent(w, c, e)
MapLocalStep == \E w \in Worlds, l \in Locals, e \in Ids : mapLocalEntity(w, l, e)

\* every exported operation, called in any order
Next ==
  \/ AddEntityStep
  \/ RemoveEntityStep
  \/ GetEntityComponentsStep
  \/ EntityExistsStep
  \/ SetDefaultSizeStep
  \/ resetGlobals
  \/ SetThresholdStep
  \/ AddComponentStep
  \/ MapLocalStep

Spec == Init /\ [][Next]_vars

\* entities created, given components and removed; no reconfiguration
NextLifecycle ==
  \/ AddEntityStep
  \/ RemoveEntityStep
  \/ AddComponentStep
  \/ MapLocalStep

SpecLifecycle == Init /\ [][NextLifecycle]_vars


\* the allocator alone: entities created and removed, and the configuration
\* calls
NextAllocator ==
  \/ AddEntityStep
  \/ RemoveEntityStep
  \/ SetDefaultSizeStep
  \/ resetGlobals
  \/ SetThresholdStep

SpecAllocator == Init /\ [][NextAllocator]_vars

\* entities created, given components, removed and inspected
NextInspect ==
  \/ AddEntityStep
  \/ RemoveEntityStep
  \/ AddComponentStep
  \/ GetEntityComponentsStep
  \/ EntityExistsStep

SpecInspect == Init /\ [][NextInspect]_vars

\* entities created and removed after a start-up configuration
NextChurn ==
  \/ AddEntityStep
  \/ RemoveEntityStep

SpecChurn == InitChurn /\ [][NextChurn]_vars

\* ------------------------------------------------------------ properties
IsAdd(call) == call.op = "addEntity"

IsRemove(call) == call.op = "removeEntity"

StrictlyIncreasing(seq) ==
  \A i, j \in 1..Len(seq) : i < j => seq[i] < seq[j]

\* C1 - uniqueness: while only addEntity has been called since start-up, the
\* returned ids are pairwise distinct and strictly increasing, also across a
\* capacity growth.
C1_IdsStrictlyIncreasing == pureAdds => StrictlyIncreasing(issued)

\* C2 - reuse bound: addEntity never returns an id that is, when it is
\* called, still a member of the sparse set of the world it was last
\* allocated to.
C2_NoReuseWhileLive ==
  [][IsAdd(lastOp') =>
       (lastOp'.eid \in DOMAIN eidToWorld =>
          lastOp'.eid \notin entitySparseSet[eidToWorld[lastOp'.eid]])]_vars

\* C3 - single ownership: an id in a world's sparse set is in no other
\* world's sparse set, and eidToWorld maps it to that world.
C3_SingleOwner ==
  \A w \in Worlds : \A e \in entitySparseSet[w] :
    /\ \A w2 \in Worlds \ {w} : e \notin entitySparseSet[w2]
    /\ e \in DOMAIN eidToWorld
    /\ eidToWorld[e] = w

\* C4 - live and pooled are disjoint: no id in the recycle pool is in any
\* world's sparse set or a key of any world's component-tag map.
C4_PoolDisjointFromLive ==
  \A i \in 1..Len(removed) : \A w \in Worlds :
    /\ removed[i] \notin entitySparseSet[w]
    /\ removed[i] \notin DOMAIN entityComponents[w]

\* C5 - idempotent removal: removeEntity(world, id) on an id that is not in
\* world's sparse set changes nothing; a removal of a live id pushes it to
\* the pool once and leaves it not live, so that a second call is a no-op.
C5_IdempotentRemoval ==
  [][IsRemove(lastOp') =>
       LET w == lastOp'.world
           e == lastOp'.eid
       IN /\ e \notin entitySparseSet'[w]
          /\ IF e \in entitySparseSet[w]
             THEN removed' = Append(removed, e)
             ELSE UNCHANGED <<globals, eidToWorld, worldState, collaborators>>]_vars

\* a second removeEntity of an id that is already in the pool, in a world
\* that holds query results and a deserialisation mapping
C5_Witness ==
  /\ IsRemove(lastOp)
  /\ ~lastOp.wasLive
  /\ \E i \in 1..Len(removed) : removed[i] = lastOp.eid
  /\ lastOp.world = eidToWorld[lastOp.eid]
  /\ \E q \in Queries : queryResult[lastOp.world][q] # {}
  /\ DOMAIN localEntities[lastOp.world] # {}


\* C6 - cursor within capacity: globalEntityCursor <= globalSize in every
\* state reached by addEntity, removeEntity, setDefaultSize,
\* setRemovedRecycleThreshold and resetGlobals.
C6_CursorWithinCapacity == globalEntityCursor <= globalSize

\* C7 - capacity monotonicity: over addEntity and removeEntity calls
\* globalSize never decreases, and a growth step of addEntity strictly
\* increases it.
C7_CapacityMonotone ==
  [][/\ globalSize' >= globalSize
     /\ (IsAdd(lastOp') /\ lastOp'.grew) => globalSize' > globalSize]_vars

\* addEntity has grown the capacity past the start-up size
C7_Witness ==
  /\ IsAdd(lastOp)
  /\ lastOp.grew
  /\ globalSize > InitSize

\* Math.round(x) for the rational x = num / 100, num >= 0: the integer k
\* with k - 1/2 <= x < k + 1/2
RoundHundredths(num) ==
  CHOOSE k \in 0..(num + 1) : 200 * k <= 2 * num + 100 /\ 2 * num + 100 < 200 * k + 200

\* C8 - id selection: with the pool, cursor, default size and threshold as
\* they are after the growth check, addEntity returns the oldest pooled id,
\* drops it from the pool and keeps the cursor exactly when the pool is
\* longer than round(defaultSize * removedReuseThreshold); otherwise it
\* returns the cursor, advances it by one and keeps the pool.  removeEntity
\* pushes at the tail, so the head of the pool is the id pushed first.
C8_IdSelection ==
  [][/\ IsAdd(lastOp') =>
          LET pool == IF lastOp'.grew THEN <<>> ELSE removed
              cursor == IF lastOp'.grew THEN 0 ELSE globalEntityCursor
              limit == RoundHundredths(defaultSize' * removedReuseThreshold')
          IN IF Len(pool) > limit
             THEN /\ lastOp'.eid = pool[1]
                  /\ removed' = Tail(pool)
                  /\ globalEntityCursor' = cursor
             ELSE /\ lastOp'.eid = cursor
                  /\ globalEntityCursor' = cursor + 1
                  /\ removed' = pool
     /\ (IsRemove(lastOp') /\ lastOp'.eid \in entitySparseSet[lastOp'.world]) =>
          /\ Len(removed') = Len(removed) + 1
          /\ removed'[Len(removed')] = lastOp'.eid
          /\ \A i \in 1..Len(removed) : removed'[i] = removed[i]]_vars

\* addEntity has handed out a pooled id, not the cursor, with a threshold
\* set by the user and another id left in the pool
C8_Witness ==
  /\ IsAdd(lastOp)
  /\ ~lastOp.grew
  /\ lastOp.eid # globalEntityCursor - 1
  /\ removedReuseThreshold # defaultRemovedReuseThreshold
  /\ Len(removed) >= 1

\* Math.ceil(size / 8) * 4 stated by its bounds: the multiple of 4, 4 * k,
\* with k - 1 < size / 8 <= k
CeilEighthTimesFour(size) ==
  4 * (CHOOSE k \in 0..(size + 1) : 8 * (k - 1) < size /\ size <= 8 * k)

\* C9 - growth rule: addEntity grows exactly when globalEntityCursor >=
\* globalSize - floor(globalSize / 5), to globalSize + ceil(globalSize/2/4)*4,
\* and otherwise leaves the capacity alone; at capacity 100000 that is at
\* cursor 80000 and not below, to a capacity >= 150000.
C9_GrowthRule ==
  /\ [][IsAdd(lastOp') =>
          /\ lastOp'.grew <=>
               globalEntityCursor >= globalSize - (globalSize \div 5)
          /\ globalSize' = IF lastOp'.grew
                           THEN globalSize + CeilEighthTimesFour(globalSize)
                           ELSE globalSize
          /\ lastOp'.grew =>
               /\ worldsSize' = globalSize'
               /\ componentsSize' = globalSize'
               /\ removed' = <<>>]_vars
  /\ resizeThresholdReached(80000, 100000)
  /\ \A c \in 79990..79999 : ~resizeThresholdReached(c, 100000)
  /\ 100000 + growAmount(100000) >= 150000

\* addEntity has grown the capacity
C9_Witness ==
  /\ IsAdd(lastOp)
  /\ lastOp.grew
  /\ globalSize = InitSize + growAmount(InitSize)
  /\ globalEntityCursor = 1

\* C10 - bitmask clearing: after removeEntity(world, id) every bitmask row
\* of that world is 0 at id, and an entry that is 0 becomes non-zero only
\* by adding a component to an id that is live in that world.
C10_BitmaskClearing ==
  [][/\ IsRemove(lastOp') =>
          \A r \in Rows : entityMasks'[lastOp'.world][r][lastOp'.eid] = 0
     /\ \A w \in Worlds, r \in Rows, e \in Ids :
          (entityMasks[w][r][e] = 0 /\ entityMasks'[w][r][e] # 0) =>
             /\ lastOp'.op = "addComponent"
             /\ lastOp'.world = w
             /\ lastOp'.eid = e
             /\ e \in entitySparseSet[w]]_vars

\* removeEntity has removed a live entity that held a component, and the
\* rows it held are cleared
C10_Witness ==
  /\ IsRemove(lastOp)
  /\ lastOp.wasLive
  /\ lastOp.held # {}
  /\ \A r \in Rows : entityMasks[lastOp.world][r][lastOp.eid] = 0


\* C11 - query consistency on add: after addEntity(world) returns e, e is in
\* the result set of every not-query of that world that e matches and of no
\* not-query of that world that e does not match.
C11_NotQueriesOnAdd ==
  [][IsAdd(lastOp') =>
       \A q \in notQueries :
         lastOp'.eid \in queryResult'[lastOp'.world][q]
           <=> queryCheckEntity(entityMasks'[lastOp'.world], q, lastOp'.eid)]_vars

\* addEntity has put its id into a not-query's result while another entity
\* of that world, holding the excluded component, is outside it
C11_Witness ==
  /\ IsAdd(lastOp)
  /\ \E q \in notQueries :
       /\ lastOp.eid \in queryResult[lastOp.world][q]
       /\ \E e \in entitySparseSet[lastOp.world] :
            e \notin queryResult[lastOp.world][q]

\* C12 - query purge on remove: after removeEntity(world, id) on a live id,
\* id is in no query result of that world, nor in its sparse set, its
\* component-tag map or either deserialisation map.
C12_PurgeOnRemove ==
  [][(IsRemove(lastOp') /\ lastOp'.eid \in entitySparseSet[lastOp'.world]) =>
       LET w == lastOp'.world
           e == lastOp'.eid
       IN /\ \A q \in Queries : e \notin queryResult'[w][q]
          /\ e \notin entitySparseSet'[w]
          /\ e \notin DOMAIN entityComponents'[w]
          /\ e \notin DOMAIN localEntityLookup'[w]
          /\ \A l \in DOMAIN localEntities'[w] : localEntities'[w][l] # e]_vars

\* removeEntity has removed a live entity that was in a positive and a
\* negative query's result and had a deserialisation mapping
C12_Witness ==
  /\ IsRemove(lastOp)
  /\ lastOp.wasLive
  /\ lastOp.held = {0}
  /\ lastOp.hadLocal


\* addEntity has returned an id that does not match a not-query (the id was
\* handed out again while its bit for the excluded component was set) and
\* left it outside that query's result
C11_NoMatchReached ==
  /\ IsAdd(lastOp)
  /\ \E q \in notQueries :
       /\ ~queryCheckEntity(entityMasks[lastOp.world], q, lastOp.eid)
       /\ lastOp.eid \notin queryResult[lastOp.world][q]


IsGet(call) == call.op = "getEntityComponents"

\* C13 - getEntityComponents: InvalidEntity for an undefined id,
\* EntityNotFound for an id that is not in the world's sparse set, otherwise
\* the id's tag set, which is empty right after addEntity; no state changes.
C13_GetEntityComponents ==
  [][IsGet(lastOp') =>
       LET w == lastOp'.world
           e == lastOp'.eid
       IN /\ UNCHANGED <<globals, eidToWorld, worldState, collaborators>>
          /\ e = undefined => lastOp'.result = "InvalidEntity"
          /\ (e # undefined /\ e \notin entitySparseSet[w]) =>
               lastOp'.result = "EntityNotFound"
          /\ (e # undefined /\ e \in entitySparseSet[w]) =>
               /\ lastOp'.result = "ok"
               /\ lastOp'.tags = entityComponents[w][e]
               /\ (IsAdd(lastOp) /\ lastOp.world = w /\ lastOp.eid = e) =>
                    lastOp'.tags = {}]_vars

\* getEntityComponents has raised EntityNotFound for an id that is live in
\* the other world
C13_Witness ==
  /\ IsGet(lastOp)
  /\ lastOp.result = "EntityNotFound"
  /\ \E w \in Worlds \ {lastOp.world} : lastOp.eid \in entitySparseSet[w]
  /\ \E e \in entitySparseSet[lastOp.world] : entityComponents[lastOp.world][e] # {}

\* C14 - existence check: entityExists(world, id) returns true when id is in
\* world's sparse set and false otherwise.
C14_EntityExists ==
  lastOp.op = "entityExists" =>
    lastOp.result = IF lastOp.eid \in entitySparseSet[lastOp.world]
                    THEN "true" ELSE "false"


\* C15 - setDefaultSize postcondition: after setDefaultSize(n) globalSize and
\* defaultSize are n, the cursor is 0, the pool is empty, the threshold is the
\* default 0.01, and worlds, component stores and the serialization flag
\* have been notified with n.
C15_SetDefaultSize ==
  [][lastOp'.op = "setDefaultSize" =>
       LET n == lastOp'.eid
       IN /\ globalSize' = n
          /\ defaultSize' = n
          /\ globalEntityCursor' = 0
          /\ removed' = <<>>
          /\ removedReuseThreshold' = defaultRemovedReuseThreshold
          /\ worldsSize' = n
          /\ componentsSize' = n
          /\ serializationResized' = TRUE]_vars

\* setDefaultSize has been called with entities live and a capacity other
\* than the start-up one
C15_Witness ==
  /\ lastOp.op = "setDefaultSize"
  /\ globalSize # InitSize
  /\ \E w \in Worlds : entitySparseSet[w] # {}

\* C16 - reuse threshold decoupled from growth: the pool length to exceed,
\* round(defaultSize * removedReuseThreshold), is the same before and after
\* an addEntity call, also when that call grows the capacity.
C16_LimitUnchangedByGrowth ==
  [][IsAdd(lastOp') =>
       RoundHundredths(defaultSize' * removedReuseThreshold')
         = RoundHundredths(defaultSize * removedReuseThreshold)]_vars

\* C17 - allocator state survives add/remove: over addEntity and removeEntity
\* calls the cursor never decreases, the pool loses no id but the one handed
\* out, and removedReuseThreshold keeps its value.
C17_StateSurvives ==
  [][(IsAdd(lastOp') \/ IsRemove(lastOp')) =>
       /\ globalEntityCursor' >= globalEntityCursor
       /\ removedReuseThreshold' = removedReuseThreshold
       /\ \/ removed' = removed
          \/ removed' = Append(removed, lastOp'.eid)
          \/ (removed # <<>> /\ removed' = Tail(removed)
              /\ lastOp'.eid = Head(removed))]_vars


\* C18 - bounded id space under churn: with T = round(defaultSize *
\* removedReuseThreshold), as long as the number of live entities has never
\* exceeded L and L + T is below the growth trigger globalSize - globalSize/5,
\* no addEntity grows the capacity and the cursor is at most L + T.  (maxLive
\* is the least such L; while globalSize is a start-up capacity no growth has
\* happened and T and the trigger are the configured ones.)
C18_BoundedUnderChurn ==
  [][(/\ globalSize \in ChurnSizes
      /\ 5 * (maxLive' + RoundHundredths(defaultSize * removedReuseThreshold))
           < 5 * globalSize - globalSize) =>
       /\ IsAdd(lastOp') => ~lastOp'.grew
       /\ globalEntityCursor'
            <= maxLive' + RoundHundredths(defaultSize * removedReuseThreshold)]_vars

\* a recycled id has been handed out with a positive reuse limit, after the
\* cursor had passed the largest number of live entities
C18_Witness ==
  /\ IsAdd(lastOp)
  /\ globalSize \in ChurnSizes
  /\ RoundHundredths(defaultSize * removedReuseThreshold) > 0
  /\ lastOp.eid # globalEntityCursor - 1
  /\ globalEntityCursor > maxLive
  /\ 5 * (maxLive + RoundHundredths(defaultSize * removedReuseThreshold))
       < 5 * globalSize - globalSize

\* growth is reachable in the churn runs once the premise fails
C18_GrowthReached == IsAdd(lastOp) /\ lastOp.grew

\* C19 - implicit id accounting: before the first growth or reset the ids
\* 0 .. cursor-1 are partitioned: each is in exactly one world's sparse set
\* or occurs exactly once in the pool, never both; no id >= cursor is live
\* or pooled; and the cursor is the live count plus the pool length.
C19_IdAccounting ==
  globalSize \in ChurnSizes =>
    /\ \A id \in 0..(globalEntityCursor - 1) :
         LET owners == {w \in Worlds : id \in entitySparseSet[w]}
             pooled == {i \in 1..Len(removed) : removed[i] = id}
         IN \/ Cardinality(owners) = 1 /\ pooled = {}
            \/ owners = {} /\ Cardinality(pooled) = 1
    /\ \A w \in Worlds : \A id \in entitySparseSet[w] : id < globalEntityCursor
    /\ \A i \in 1..Len(removed) : removed[i] < globalEntityCursor
    /\ globalEntityCursor = liveCount(entitySparseSet) + Len(removed)

\* an id was recycled while another stays pooled and no growth has happened
C19_Witness ==
  /\ IsAdd(lastOp)
  /\ globalSize \in ChurnSizes
  /\ lastOp.eid < globalEntityCursor - 1
  /\ removed # <<>>
  /\ liveCount(entitySparseSet) >= 1

\* C20 (as stated) - ids stay in bounds: every id addEntity returns is >= 0
\* and < globalSize at the moment it is returned, for every sequence of
\* addEntity / removeEntity calls and also after a user call of
\* setDefaultSize(n) with n below the current capacity while entities live.
\* (Stated for positive capacities, so that a capacity of 0 is not what
\* decides it.)
C20_IdsInBoundsAfterShrink ==
  [][(IsAdd(lastOp') /\ globalSize' >= 1) =>
       (0 <= lastOp'.eid /\ lastOp'.eid < globalSize')]_vars

\* C20 - ids stay in bounds: every id addEntity returns, fresh or recycled,
\* is >= 0 and < globalSize at the moment it is returned, for every sequence
\* of addEntity / removeEntity calls from start-up, capacity growth included
\* (not after a user call of setDefaultSize with a smaller size).
C20_IdsInBounds ==
  [][(IsAdd(lastOp') /\ otherOps' = 0) =>
       (0 <= lastOp'.eid /\ lastOp'.eid < globalSize')]_vars

\* an id was returned by an addEntity that grew the capacity, with only
\* addEntity / removeEntity called so far
C20_Witness == IsAdd(lastOp) /\ otherOps = 0 /\ lastOp.grew /\ removed = <<>>

====
